---- MODULE Spec2Model ----
(***************************************************************************)
(* Model of dnd_xp_bot.py: the XP threshold table, the level arithmetic,   *)
(* the JSON record store (load_db / save_db through a temporary file and   *)
(* os.replace), the process-wide asyncio lock db_lock, and the command     *)
(* handlers join, status, party, addxp, addxp_all and setlevel.            *)
(*                                                                         *)
(* Every handler is a coroutine.  A handler slot h runs one command at a   *)
(* time; pc[h] is its position.  The steps of the critical sections are    *)
(* kept apart (load, open of the temporary file, each written chunk, the   *)
(* replace), so that other handlers, readers and a crash of the process    *)
(* can fall between any two of them.                                       *)
(***************************************************************************)
EXTENDS Integers, Sequences, FiniteSets, TLC

\* ------------------------------------------------------------------ bounds
\* Number of commands started in one behaviour.
MaxOps == 2

\* Handler slots (concurrently running command coroutines).
Handlers == {1, 2}

\* Guild and user ids (str(guild_id), str(user_id) in the store).
Guilds == {"g1"}
Users == {"u1", "u2"}

\* Inputs of the commands.
\* join: <<level, xp>>; the defaults, a level whose threshold exceeds the xp
\* given and an xp that exceeds the threshold of the level given.
JoinArgs == {<<1, 0>>, <<5, 0>>, <<5, 20000>>}
Amounts == {-500, 0, 300}
SetLevels == {5}

\* ------------------------------------------------------- threshold table
XP_THRESHOLDS ==
  << 0, 300, 900, 2700, 6500, 14000, 23000, 34000, 48000, 64000,
     85000, 100000, 120000, 140000, 165000, 195000, 225000, 265000,
     305000, 355000 >>

MaxOf(a, b) == IF a >= b THEN a ELSE b
MinOf(a, b) == IF a <= b THEN a ELSE b

\* The loop of level_from_xp: i runs over the table, lvl is the last index
\* whose threshold is <= xp_total.
RECURSIVE LevelLoop(_, _, _)
LevelLoop(xp_total, i, lvl) ==
  IF i > Len(XP_THRESHOLDS) THEN lvl
  ELSE LevelLoop(xp_total, i + 1,
                 IF xp_total >= XP_THRESHOLDS[i] THEN i ELSE lvl)

\* A level counted from 0 (enumerate without start=1).
level_from_xpZeroBased(xp_total) == MinOf(LevelLoop(xp_total, 1, 1) - 1, 20)

\* A level that is reached only above its threshold.
level_from_xpAbove(xp_total) == MinOf(LevelLoop(xp_total - 1, 1, 1), 20)

level_from_xp(xp_total) == MinOf(LevelLoop(xp_total, 1, 1), 20)

\* None is modelled by -1 (no threshold is negative).
None == -1

\* A next_threshold that has none from level 19 on.
next_thresholdEarlyNone(level) == IF level >= 19 THEN None ELSE XP_THRESHOLDS[level + 1]

next_threshold(level) == IF level >= 20 THEN None ELSE XP_THRESHOLDS[level + 1]

prev_threshold(level) == XP_THRESHOLDS[level]

remaining_to_next(xp_total) ==
  LET lvl == level_from_xp(xp_total)
      nxt == next_threshold(lvl)
  IN IF nxt = None THEN None ELSE MaxOf(0, nxt - xp_total)

progress_in_level(xp_total) ==
  LET lvl == level_from_xp(xp_total)
  IN IF lvl >= 20 THEN <<0, 0, 20>>
     ELSE LET low == prev_threshold(lvl)
              high == next_threshold(lvl)
              cur == xp_total - low
              need == IF high # None THEN high - low ELSE 0
          IN <<MaxOf(0, cur), MaxOf(0, need), lvl>>

\* ------------------------------------------------------------ the store
\* A store (the dict db) is a function from the guild ids it holds to
\* [members |-> function from the user ids of the guild to [xp |-> n]].
EmptyMap == [x \in {} |-> 0]

Extend(f, k, v) == [x \in (DOMAIN f) \cup {k} |-> IF x = k THEN v ELSE f[x]]

\* A guild_bucket that always starts an empty group.
guild_bucketAlwaysNew(d, gid) == Extend(d, gid, [members |-> EmptyMap])

guild_bucket(d, gid) ==
  IF gid \notin DOMAIN d THEN Extend(d, gid, [members |-> EmptyMap]) ELSE d

\* ensure_member on the bucket of gid in d (d already holds gid).
ensure_member(d, gid, uid) ==
  IF uid \notin DOMAIN d[gid].members
  THEN Extend(d, gid, [members |-> Extend(d[gid].members, uid, [xp |-> 0])])
  ELSE d

\* A join that never finds the member.
IsMemberNever(d, gid, uid) == FALSE

\* join, line 254: uid in members.
IsMember(d, gid, uid) == gid \in DOMAIN d /\ uid \in DOMAIN d[gid].members

\* A seed that ignores the level asked for.
JoinSeedNoMin(level, xp) == xp

\* join, lines 273-275: the seed of a new member.
JoinSeed(level, xp) ==
  LET min_xp == XP_THRESHOLDS[level]
  IN IF xp < min_xp THEN min_xp ELSE xp

\* An award that does not clamp.
NewXpNoClamp(before_xp, add) == before_xp + add

\* add_xp_for_member, line 375.
NewXp(before_xp, add) == MaxOf(0, before_xp + add)

\* A level-up that also counts an unchanged level.
LeveledOrSame(after_lvl, before_lvl) == after_lvl >= before_lvl

\* add_xp_for_member, line 380.
Leveled(after_lvl, before_lvl) == after_lvl > before_lvl

\* m["xp"] = n
SetXp(d, gid, uid, n) ==
  Extend(d, gid, [members |-> Extend(d[gid].members, uid, [xp |-> n])])

\* --------------------------------------------------------------- files
\* A file is absent or holds a sequence of chunks.  json.dump writes the
\* opening brace, one entry per guild and the closing brace; a file cut
\* short lacks the tail of that sequence.
NoFile == [exists |-> FALSE, data |-> <<>>]

Chunk(k, g, v) == [k |-> k, g |-> g, v |-> v]

RECURSIVE SetToSeq(_)
SetToSeq(S) ==
  IF S = {} THEN <<>>
  ELSE LET x == CHOOSE y \in S : TRUE IN <<x>> \o SetToSeq(S \ {x})

\* json.dump(db): the text of the store, chunk by chunk.
Serialize(d) ==
  LET gs == SetToSeq(DOMAIN d)
  IN <<Chunk("open", "", EmptyMap)>>
     \o [i \in 1..Len(gs) |-> Chunk("group", gs[i], d[gs[i]].members)]
     \o <<Chunk("close", "", EmptyMap)>>

\* json.load accepts exactly a complete text.
WellFormed(data) ==
  /\ Len(data) >= 2
  /\ data[1].k = "open"
  /\ data[Len(data)].k = "close"
  /\ \A i \in 2..(Len(data) - 1) : data[i].k = "group"

Parse(data) ==
  [g \in {data[i].g : i \in 2..(Len(data) - 1)} |->
     [members |-> LET i == CHOOSE j \in 2..(Len(data) - 1) : data[j].g = g
                  IN data[i].v]]

\* load_db: {} when the file does not exist, json.load otherwise.
LoadOk(f) == ~f.exists \/ WellFormed(f.data)
load_db(f) == IF ~f.exists THEN EmptyMap ELSE Parse(f.data)

\* ---------------------------------------------------------------- state
VARIABLES
  dataFile,   \* DATA_FILE
  tmpFile,    \* DATA_FILE + ".tmp"
  locked,     \* db_lock is held
  waiters,    \* the coroutines waiting in db_lock.acquire(), first in first
  pc,         \* position of each handler
  call,       \* the command a handler runs and its arguments
  db,         \* the dict a handler loaded inside the lock (and mutated)
  loc,        \* the handler's local values and what it reports
  log,        \* history: the mutations committed by os.replace, in order
  store0,     \* history: the store the process found when it started
  nops,       \* history: number of commands started
  calc        \* one evaluation of the level arithmetic: arguments and results

vars == <<dataFile, tmpFile, locked, waiters, pc, call, db, loc, log, store0, nops, calc>>

NoCall == [cmd |-> "none", guild |-> "", user |-> "", level |-> 0, amt |-> 0]

NoLoc == [out |-> "none", before_xp |-> 0, after_xp |-> 0, before_lvl |-> 0,
          after_lvl |-> 0, leveled |-> FALSE, rem |-> None,
          view |-> EmptyMap, todo |-> {}, snap |-> EmptyMap,
          done |-> <<>>, skipped |-> {}]

\* What an earlier run of the bot may have left in DATA_FILE: nothing, or a
\* store written by save_db.
StoreOf(ms) == [g \in {"g1"} |-> [members |-> ms]]

\* No evaluation of the level arithmetic on its own is under way.
NoCalc == [phase |-> "off", xp1 |-> 0, xp2 |-> 0, lvl1 |-> 0, lvl2 |-> 0,
           rem1 |-> None, rem2 |-> None, prog1 |-> <<0, 0, 0>>, prog2 |-> <<0, 0, 0>>]

InitStores ==
  { StoreOf([u \in {"u1"} |-> [xp |-> 300]]) }

Init ==
  /\ dataFile \in {NoFile} \cup {[exists |-> TRUE, data |-> Serialize(s)] : s \in InitStores}
  /\ store0 = load_db(dataFile)
  /\ tmpFile = NoFile
  /\ locked = FALSE
  /\ waiters = <<>>
  /\ pc = [h \in Handlers |-> "idle"]
  /\ call = [h \in Handlers |-> NoCall]
  /\ db = [h \in Handlers |-> EmptyMap]
  /\ loc = [h \in Handlers |-> NoLoc]
  /\ log = <<>>
  /\ nops = 0
  /\ calc = NoCalc

\* A command arrives and is given the lowest free handler slot.
Start(h) ==
  /\ pc[h] = "idle"
  /\ \A k \in Handlers : k < h => pc[k] # "idle"
  /\ nops < MaxOps
  /\ nops' = nops + 1
  /\ UNCHANGED <<store0, calc>>

\* ---------------------------------------------------------------- db_lock
\* A lock that lets every caller in.
LockAcquireNoExclusion(h) ==
  /\ locked' = TRUE
  /\ waiters' = waiters
  /\ pc' = [pc EXCEPT ![h] = "load"]

\* async with db_lock, entry: asyncio.Lock.acquire takes a free lock at once
\* when nobody waits, and queues the caller otherwise.
LockAcquire(h) ==
  IF ~locked /\ waiters = <<>>
  THEN /\ locked' = TRUE
       /\ waiters' = waiters
       /\ pc' = [pc EXCEPT ![h] = "load"]
  ELSE /\ locked' = locked
       /\ waiters' = Append(waiters, h)
       /\ pc' = [pc EXCEPT ![h] = "waiting"]

\* A waiter that goes on while the lock is still held.
LockResumeWhileHeld(h) ==
  /\ pc[h] = "waiting"
  /\ waiters # <<>>
  /\ Head(waiters) = h
  /\ locked' = TRUE
  /\ waiters' = Tail(waiters)
  /\ pc' = [pc EXCEPT ![h] = "load"]
  /\ UNCHANGED <<dataFile, tmpFile, call, db, loc, log, store0, nops, calc>>

\* The first waiter, woken by release, takes the lock.
LockResume(h) ==
  /\ pc[h] = "waiting"
  /\ ~locked
  /\ waiters # <<>>
  /\ Head(waiters) = h
  /\ locked' = TRUE
  /\ waiters' = Tail(waiters)
  /\ pc' = [pc EXCEPT ![h] = "load"]
  /\ UNCHANGED <<dataFile, tmpFile, call, db, loc, log, store0, nops, calc>>

\* async with db_lock, exit (also on an exception): asyncio.Lock.release.
LockRelease == locked' = FALSE /\ waiters' = waiters


Report(h, r) == loc' = [loc EXCEPT ![h] = r]

\* ------------------------------------------------------------------ join
\* join, lines 236-246: adding somebody else needs admin or moderator rights.
JoinDenied(h) ==
  /\ Start(h)
  /\ pc' = [pc EXCEPT ![h] = "respond"]
  /\ call' = [call EXCEPT ![h] = NoCall]
  /\ Report(h, [NoLoc EXCEPT !.out = "denied"])
  /\ UNCHANGED <<dataFile, tmpFile, locked, waiters, db, log>>

\* join, line 248: the call reaches async with db_lock.
JoinInvoke(h, g, u, level, xp) ==
  /\ Start(h)
  /\ call' = [call EXCEPT ![h] =
                [cmd |-> "join", guild |-> g, user |-> u, level |-> level, amt |-> xp]]
  /\ LockAcquire(h)
  /\ UNCHANGED <<dataFile, tmpFile, db, loc, log>>

\* join, lines 249-276: load, then the branch on "uid in members".
JoinLoad(h) ==
  /\ pc[h] = "load"
  /\ call[h].cmd = "join"
  /\ LoadOk(dataFile)
  /\ LET g == call[h].guild
         uid == call[h].user
         d == guild_bucket(load_db(dataFile), g)
     IN IF IsMember(d, g, uid)
        THEN LET xp_now == d[g].members[uid].xp
             IN /\ db' = [db EXCEPT ![h] = d]
                /\ Report(h, [NoLoc EXCEPT !.out = "already",
                                           !.snap = load_db(dataFile),
                                           !.after_xp = xp_now,
                                           !.after_lvl = level_from_xp(xp_now),
                                           !.rem = remaining_to_next(xp_now)])
                /\ pc' = [pc EXCEPT ![h] = "sendlocked"]
        ELSE LET xp == JoinSeed(call[h].level, call[h].amt)
             IN /\ db' = [db EXCEPT ![h] = SetXp(d, g, uid, xp)]
                /\ Report(h, [NoLoc EXCEPT !.after_xp = xp, !.snap = load_db(dataFile)])
                /\ pc' = [pc EXCEPT ![h] = "open"]
  /\ UNCHANGED <<dataFile, tmpFile, locked, waiters, call, log, store0, nops, calc>>

\* join, line 269: the "already in the party" embed is sent inside the
\* async with block; the block is left (and the lock released) when the
\* send has returned or raised.
JoinSendLocked(h) ==
  /\ pc[h] = "sendlocked"
  /\ LockRelease
  /\ pc' = [pc EXCEPT ![h] = "idle"]
  /\ call' = [call EXCEPT ![h] = NoCall]
  /\ db' = [db EXCEPT ![h] = EmptyMap]
  /\ Report(h, NoLoc)
  /\ UNCHANGED <<dataFile, tmpFile, log, store0, nops, calc>>

\* ------------------------------------------------------- add_xp_for_member
\* addxp, lines 436-441.  amount == 0 answers at once.
AddxpInvoke(h, g, u, amount) ==
  /\ Start(h)
  /\ IF amount = 0
     THEN /\ pc' = [pc EXCEPT ![h] = "respond"]
          /\ call' = [call EXCEPT ![h] = NoCall]
          /\ Report(h, [NoLoc EXCEPT !.out = "zero"])
          /\ UNCHANGED <<locked, waiters>>
     ELSE /\ call' = [call EXCEPT ![h] =
                        [cmd |-> "addxp", guild |-> g, user |-> u, level |-> 0,
                         amt |-> amount]]
          /\ LockAcquire(h)
          /\ UNCHANGED loc
  /\ UNCHANGED <<dataFile, tmpFile, db, log>>

\* An addxp_all whose updates work on the member list it read before the
\* loop, outside the lock, instead of loading the store again.
AwardLoadStale(h) ==
  /\ pc[h] = "load"
  /\ call[h].cmd \in {"addxp", "addxp_all"}
  /\ LoadOk(dataFile)
  /\ LET g == call[h].guild
         uid == call[h].user
         read == IF call[h].cmd = "addxp_all"
                 THEN Extend(load_db(dataFile), g, [members |-> loc[h].view])
                 ELSE load_db(dataFile)
         d == ensure_member(guild_bucket(read, g), g, uid)
         before_xp == d[g].members[uid].xp
         after_xp == NewXp(before_xp, call[h].amt)
     IN /\ db' = [db EXCEPT ![h] = SetXp(d, g, uid, after_xp)]
        /\ Report(h, [loc[h] EXCEPT !.snap = load_db(dataFile),
                                    !.before_xp = before_xp,
                                    !.before_lvl = level_from_xp(before_xp),
                                    !.after_xp = after_xp,
                                    !.after_lvl = level_from_xp(after_xp)])
  /\ pc' = [pc EXCEPT ![h] = "open"]
  /\ UNCHANGED <<dataFile, tmpFile, locked, waiters, call, log, store0, nops, calc>>

\* add_xp_for_member, lines 368-377.
AwardLoad(h) ==
  /\ pc[h] = "load"
  /\ call[h].cmd \in {"addxp", "addxp_all"}
  /\ LoadOk(dataFile)
  /\ LET g == call[h].guild
         uid == call[h].user
         d == ensure_member(guild_bucket(load_db(dataFile), g), g, uid)
         before_xp == d[g].members[uid].xp
         after_xp == NewXp(before_xp, call[h].amt)
     IN /\ db' = [db EXCEPT ![h] = SetXp(d, g, uid, after_xp)]
        /\ Report(h, [loc[h] EXCEPT !.snap = load_db(dataFile),
                                    !.before_xp = before_xp,
                                    !.before_lvl = level_from_xp(before_xp),
                                    !.after_xp = after_xp,
                                    !.after_lvl = level_from_xp(after_xp)])
  /\ pc' = [pc EXCEPT ![h] = "open"]
  /\ UNCHANGED <<dataFile, tmpFile, locked, waiters, call, log, store0, nops, calc>>

\* ------------------------------------------------------------- setlevel
\* setlevel, lines 528-531: administrators only.
SetLevelDenied(h) ==
  /\ Start(h)
  /\ pc' = [pc EXCEPT ![h] = "respond"]
  /\ call' = [call EXCEPT ![h] = NoCall]
  /\ Report(h, [NoLoc EXCEPT !.out = "denied"])
  /\ UNCHANGED <<dataFile, tmpFile, locked, waiters, db, log>>

SetLevelInvoke(h, g, u, level) ==
  /\ Start(h)
  /\ call' = [call EXCEPT ![h] =
                [cmd |-> "setlevel", guild |-> g, user |-> u, level |-> level, amt |-> 0]]
  /\ LockAcquire(h)
  /\ UNCHANGED <<dataFile, tmpFile, db, loc, log>>

\* A setlevel that never lowers the xp of the member.
SetLevelLoadNeverLowers(h) ==
  /\ pc[h] = "load"
  /\ call[h].cmd = "setlevel"
  /\ LoadOk(dataFile)
  /\ LET g == call[h].guild
         uid == call[h].user
         d == ensure_member(guild_bucket(load_db(dataFile), g), g, uid)
         xp == MaxOf(d[g].members[uid].xp, XP_THRESHOLDS[call[h].level])
     IN /\ db' = [db EXCEPT ![h] = SetXp(d, g, uid, xp)]
        /\ Report(h, [NoLoc EXCEPT !.snap = load_db(dataFile),
                                   !.before_xp = d[g].members[uid].xp,
                                   !.after_xp = xp])
  /\ pc' = [pc EXCEPT ![h] = "open"]
  /\ UNCHANGED <<dataFile, tmpFile, locked, waiters, call, log, store0, nops, calc>>

\* setlevel, lines 534-537.
SetLevelLoad(h) ==
  /\ pc[h] = "load"
  /\ call[h].cmd = "setlevel"
  /\ LoadOk(dataFile)
  /\ LET g == call[h].guild
         uid == call[h].user
         d == ensure_member(guild_bucket(load_db(dataFile), g), g, uid)
         xp == XP_THRESHOLDS[call[h].level]
     IN /\ db' = [db EXCEPT ![h] = SetXp(d, g, uid, xp)]
        /\ Report(h, [NoLoc EXCEPT !.snap = load_db(dataFile),
                                   !.before_xp = d[g].members[uid].xp,
                                   !.after_xp = xp])
  /\ pc' = [pc EXCEPT ![h] = "open"]
  /\ UNCHANGED <<dataFile, tmpFile, locked, waiters, call, log, store0, nops, calc>>

\* load_db raises inside the lock (the file cannot be read, or json.load
\* rejects its text): the async with block is left and the handler ends.
LoadFail(h) ==
  /\ pc[h] = "load"
  /\ LockRelease
  /\ pc' = [pc EXCEPT ![h] = "raised"]
  /\ Report(h, [NoLoc EXCEPT !.out = "load_error"])
  /\ UNCHANGED <<dataFile, tmpFile, call, db, log, store0, nops, calc>>

\* --------------------------------------------------------------- save_db
\* A save_db that writes DATA_FILE in place.
SaveOpenInPlace(h) ==
  /\ pc[h] = "open"
  /\ dataFile' = [exists |-> TRUE, data |-> <<>>]
  /\ pc' = [pc EXCEPT ![h] = "write"]
  /\ UNCHANGED <<tmpFile, locked, waiters, call, db, loc, log, store0, nops, calc>>

\* save_db, line 58: open(tmp, "w") creates or truncates the temporary file.
SaveOpen(h) ==
  /\ pc[h] = "open"
  /\ tmpFile' = [exists |-> TRUE, data |-> <<>>]
  /\ pc' = [pc EXCEPT ![h] = "write"]
  /\ UNCHANGED <<dataFile, locked, waiters, call, db, loc, log, store0, nops, calc>>

\* save_db, line 59: json.dump writes the next chunk of the text.
SaveWrite(h) ==
  /\ pc[h] = "write"
  /\ Len(tmpFile.data) < Len(Serialize(db[h]))
  /\ tmpFile' = [tmpFile EXCEPT
                   !.data = Append(@, Serialize(db[h])[Len(tmpFile.data) + 1])]
  /\ UNCHANGED <<dataFile, locked, waiters, pc, call, db, loc, log, store0, nops, calc>>

LogEntry(c) ==
  [op |-> IF c.cmd = "addxp_all" THEN "addxp" ELSE c.cmd,
   guild |-> c.guild, user |-> c.user, level |-> c.level, amt |-> c.amt]

\* What the handler computes after the async with block: join lines 279-280,
\* add_xp_for_member lines 380-393, setlevel lines 540-542; addxp_all adds
\* one field for the member to its embed (lines 505-509).
AfterLock(h) ==
  LET l == loc[h]
      c == call[h].cmd
  IN [l EXCEPT
        !.out = CASE c = "join" -> "joined"
                  [] c = "setlevel" -> "set"
                  [] OTHER -> "awarded",
        !.after_lvl = IF c = "setlevel" THEN progress_in_level(l.after_xp)[3]
                      ELSE level_from_xp(l.after_xp),
        !.leveled = IF c \in {"addxp", "addxp_all"}
                    THEN Leveled(l.after_lvl, l.before_lvl) ELSE FALSE,
        !.snap = EmptyMap,
        !.done = IF c = "addxp_all" THEN Append(@, call[h].user) ELSE @,
        !.rem = remaining_to_next(l.after_xp)]

\* save_db, line 60: os.replace(tmp, DATA_FILE), after the text is written
\* and the temporary file closed; then the async with block ends.
SaveReplace(h) ==
  /\ pc[h] = "write"
  /\ Len(tmpFile.data) = Len(Serialize(db[h]))
  /\ dataFile' = tmpFile
  /\ tmpFile' = NoFile
  /\ LockRelease
  /\ log' = Append(log, LogEntry(call[h]))
  /\ Report(h, AfterLock(h))
  /\ pc' = [pc EXCEPT ![h] = IF call[h].cmd = "addxp_all" THEN "all_loop" ELSE "respond"]
  /\ UNCHANGED <<call, db, store0, nops, calc>>

\* A failing save_db that leaves db_lock held.
SaveFailKeepsLock(h) ==
  /\ pc[h] \in {"open", "write"}
  /\ UNCHANGED <<locked, waiters>>
  /\ pc' = [pc EXCEPT ![h] = "raised"]
  /\ Report(h, [loc[h] EXCEPT !.out = "save_error"])
  /\ UNCHANGED <<dataFile, tmpFile, call, db, log, store0, nops, calc>>

\* A save_db that moves the temporary file also when the write failed.
SaveFailReplaces(h) ==
  /\ pc[h] \in {"open", "write"}
  /\ LockRelease
  /\ dataFile' = tmpFile
  /\ tmpFile' = NoFile
  /\ pc' = [pc EXCEPT ![h] = "raised"]
  /\ Report(h, [loc[h] EXCEPT !.out = "save_error"])
  /\ UNCHANGED <<call, db, log, store0, nops, calc>>

\* save_db raises (open, a write, the close or os.replace fails): the async
\* with block is left and the exception ends the handler.
SaveFail(h) ==
  /\ pc[h] \in {"open", "write"}
  /\ LockRelease
  /\ pc' = [pc EXCEPT ![h] = "raised"]
  /\ Report(h, [loc[h] EXCEPT !.out = "save_error"])
  /\ UNCHANGED <<dataFile, tmpFile, call, db, log, store0, nops, calc>>

\* --------------------------------------------------------------- readers
\* A status that saves the store it looked at (with the group entry that
\* guild_bucket added) and answers with xp 0 for a pair without a record.
StatusSaves(h, g, u) ==
  /\ Start(h)
  /\ LoadOk(dataFile)
  /\ call' = [call EXCEPT ![h] = [NoCall EXCEPT !.cmd = "status", !.guild = g, !.user = u]]
  /\ LET d == guild_bucket(load_db(dataFile), g)
         members == d[g].members
         xp == IF u \in DOMAIN members THEN members[u].xp ELSE 0
     IN /\ pc' = [pc EXCEPT ![h] = "respond"]
        /\ dataFile' = [exists |-> TRUE, data |-> Serialize(d)]
        /\ Report(h, [NoLoc EXCEPT !.out = "status",
                                   !.view = members,
                                   !.after_xp = xp,
                                   !.after_lvl = progress_in_level(xp)[3],
                                   !.rem = remaining_to_next(xp)])
  /\ UNCHANGED <<tmpFile, locked, waiters, db, log>>

\* status, lines 297-311: load_db outside the lock.
Status(h, g, u) ==
  /\ Start(h)
  /\ call' = [call EXCEPT ![h] = [NoCall EXCEPT !.cmd = "status", !.guild = g, !.user = u]]
  /\ IF ~LoadOk(dataFile)
     THEN /\ pc' = [pc EXCEPT ![h] = "raised"]
          /\ Report(h, [NoLoc EXCEPT !.out = "corrupt"])
     ELSE LET d == guild_bucket(load_db(dataFile), g)
              members == d[g].members
          IN /\ pc' = [pc EXCEPT ![h] = "respond"]
             /\ IF u \notin DOMAIN members
                THEN Report(h, [NoLoc EXCEPT !.out = "notmember", !.view = members])
                ELSE LET xp == members[u].xp
                     IN Report(h, [NoLoc EXCEPT !.out = "status",
                                                !.view = members,
                                                !.after_xp = xp,
                                                !.after_lvl = progress_in_level(xp)[3],
                                                !.rem = remaining_to_next(xp)])
  /\ UNCHANGED <<dataFile, tmpFile, locked, waiters, db, log>>

\* party, lines 328-334: load_db outside the lock.
Party(h, g) ==
  /\ Start(h)
  /\ call' = [call EXCEPT ![h] = [NoCall EXCEPT !.cmd = "party", !.guild = g]]
  /\ IF ~LoadOk(dataFile)
     THEN /\ pc' = [pc EXCEPT ![h] = "raised"]
          /\ Report(h, [NoLoc EXCEPT !.out = "corrupt"])
     ELSE LET members == guild_bucket(load_db(dataFile), g)[g].members
          IN /\ pc' = [pc EXCEPT ![h] = "respond"]
             /\ Report(h, [NoLoc EXCEPT
                             !.out = IF members = EmptyMap THEN "empty" ELSE "party",
                             !.view = members])
  /\ UNCHANGED <<dataFile, tmpFile, locked, waiters, db, log>>

\* -------------------------------------------------------------- addxp_all
\* addxp_all, lines 470-481: the list of member ids is read outside the lock.
AllInvoke(h, g, amount) ==
  /\ Start(h)
  /\ IF amount = 0
     THEN /\ pc' = [pc EXCEPT ![h] = "respond"]
          /\ call' = [call EXCEPT ![h] = NoCall]
          /\ Report(h, [NoLoc EXCEPT !.out = "zero"])
     ELSE /\ call' = [call EXCEPT ![h] =
                        [NoCall EXCEPT !.cmd = "addxp_all", !.guild = g, !.amt = amount]]
          /\ IF ~LoadOk(dataFile)
             THEN /\ pc' = [pc EXCEPT ![h] = "raised"]
                  /\ Report(h, [NoLoc EXCEPT !.out = "corrupt"])
             ELSE LET members == guild_bucket(load_db(dataFile), g)[g].members
                  IN IF members = EmptyMap
                     THEN /\ pc' = [pc EXCEPT ![h] = "respond"]
                          /\ Report(h, [NoLoc EXCEPT !.out = "empty"])
                     ELSE /\ pc' = [pc EXCEPT ![h] = "all_loop"]
                          /\ Report(h, [NoLoc EXCEPT !.view = members,
                                                     !.todo = DOMAIN members])
  /\ UNCHANGED <<dataFile, tmpFile, locked, waiters, db, log>>

\* addxp_all, lines 491-493: _get_member_safe finds no such member of the
\* guild and the loop continues with the next id.
AllSkip(h, u) ==
  /\ pc[h] = "all_loop"
  /\ u \in loc[h].todo
  /\ Report(h, [loc[h] EXCEPT !.todo = @ \ {u}, !.skipped = @ \cup {u}])
  /\ UNCHANGED <<dataFile, tmpFile, locked, waiters, pc, call, db, log, store0, nops, calc>>

\* addxp_all, line 494: add_xp_for_member for the next id.
AllAward(h, u) ==
  /\ pc[h] = "all_loop"
  /\ u \in loc[h].todo
  /\ Report(h, [loc[h] EXCEPT !.todo = @ \ {u}])
  /\ call' = [call EXCEPT ![h].user = u]
  /\ LockAcquire(h)
  /\ UNCHANGED <<dataFile, tmpFile, db, log, store0, nops, calc>>

\* An addxp_all that answers while ids of its list are left.
AllDoneEarly(h) ==
  /\ pc[h] = "all_loop"
  /\ pc' = [pc EXCEPT ![h] = "respond"]
  /\ Report(h, [loc[h] EXCEPT !.out = "all_done"])
  /\ UNCHANGED <<dataFile, tmpFile, locked, waiters, call, db, log, store0, nops, calc>>

\* addxp_all, line 511: the loop is over.
AllDone(h) ==
  /\ pc[h] = "all_loop"
  /\ loc[h].todo = {}
  /\ pc' = [pc EXCEPT ![h] = "respond"]
  /\ Report(h, [loc[h] EXCEPT !.out = "all_done"])
  /\ UNCHANGED <<dataFile, tmpFile, locked, waiters, call, db, log, store0, nops, calc>>

\* ------------------------------------------------------------- the ends
\* The answer is sent (send_embed_safely after the lock), or the exception
\* has reached the command framework: the handler is over.
Finish(h) ==
  /\ pc[h] \in {"respond", "raised"}
  /\ pc' = [pc EXCEPT ![h] = "idle"]
  /\ call' = [call EXCEPT ![h] = NoCall]
  /\ db' = [db EXCEPT ![h] = EmptyMap]
  /\ Report(h, NoLoc)
  /\ UNCHANGED <<dataFile, tmpFile, locked, waiters, log, store0, nops, calc>>

\* The process dies and is started again: every coroutine and the lock are
\* gone, the two files stay as they are.
Crash ==
  /\ \E h \in Handlers : pc[h] # "idle"
  /\ locked' = FALSE
  /\ waiters' = <<>>
  /\ pc' = [h \in Handlers |-> "idle"]
  /\ call' = [h \in Handlers |-> NoCall]
  /\ db' = [h \in Handlers |-> EmptyMap]
  /\ loc' = [h \in Handlers |-> NoLoc]
  /\ UNCHANGED <<dataFile, tmpFile, log, store0, nops, calc>>

Step(h) ==
  \/ JoinDenied(h)
  \/ \E g \in Guilds, u \in Users, a \in JoinArgs : JoinInvoke(h, g, u, a[1], a[2])
  \/ JoinLoad(h)
  \/ JoinSendLocked(h)
  \/ \E g \in Guilds, u \in Users, amount \in Amounts : AddxpInvoke(h, g, u, amount)
  \/ AwardLoad(h)
  \/ SetLevelDenied(h)
  \/ \E g \in Guilds, u \in Users, level \in SetLevels : SetLevelInvoke(h, g, u, level)
  \/ SetLevelLoad(h)
  \/ LoadFail(h)
  \/ LockResume(h)
  \/ SaveOpen(h)
  \/ SaveWrite(h)
  \/ SaveReplace(h)
  \/ SaveFail(h)
  \/ \E g \in Guilds, u \in Users : Status(h, g, u)
  \/ \E g \in Guilds : Party(h, g)
  \/ \E g \in Guilds, amount \in Amounts : AllInvoke(h, g, amount)
  \/ \E u \in Users : AllSkip(h, u)
  \/ \E u \in Users : AllAward(h, u)
  \/ AllDone(h)
  \/ Finish(h)

Next == (\E h \in Handlers : Step(h)) \/ Crash

Spec == Init /\ [][Next]_vars

\* The process keeps running.  The event loop resumes every coroutine that
\* can go on: the first waiter of a free lock, the synchronous code between
\* two awaits, and a send to the network, which returns or raises in the
\* end.  Whether load_db or save_db raises is not in the scheduler's hands.
Progress(h) ==
  \/ LockResume(h)
  \/ JoinLoad(h)
  \/ JoinSendLocked(h)
  \/ AwardLoad(h)
  \/ SetLevelLoad(h)
  \/ SaveOpen(h)
  \/ SaveWrite(h)
  \/ SaveReplace(h)
  \/ (\E u \in Users : AllAward(h, u))
  \/ AllDone(h)
  \/ Finish(h)

NextLive == \E h \in Handlers : Step(h)

LiveSpec == Init /\ [][NextLive]_vars /\ \A h \in Handlers : WF_vars(Progress(h))

\* ------------------------------------------------- the level arithmetic
\* level_from_xp, remaining_to_next and progress_in_level on their own,
\* applied to two xp totals.  level_from_xp only compares its argument with
\* the entries of XP_THRESHOLDS, so the arguments are taken around every
\* entry (one below, the entry, one above), and far above the last one.
XpProbes ==
  { x \in UNION { {XP_THRESHOLDS[i] - 1, XP_THRESHOLDS[i], XP_THRESHOLDS[i] + 1} :
                    i \in 1..Len(XP_THRESHOLDS) } : x >= 0 }
    \cup {2 * XP_THRESHOLDS[Len(XP_THRESHOLDS)]}

LevelInit ==
  /\ dataFile = NoFile
  /\ store0 = EmptyMap
  /\ tmpFile = NoFile
  /\ locked = FALSE
  /\ waiters = <<>>
  /\ pc = [h \in Handlers |-> "idle"]
  /\ call = [h \in Handlers |-> NoCall]
  /\ db = [h \in Handlers |-> EmptyMap]
  /\ loc = [h \in Handlers |-> NoLoc]
  /\ log = <<>>
  /\ nops = 0
  /\ \E x1 \in XpProbes, x2 \in XpProbes :
       calc = [NoCalc EXCEPT !.phase = "input", !.xp1 = x1, !.xp2 = x2]

\* level_from_xp of both arguments.
EvalLevel ==
  /\ calc.phase = "input"
  /\ calc' = [calc EXCEPT !.phase = "level",
                          !.lvl1 = level_from_xp(calc.xp1),
                          !.lvl2 = level_from_xp(calc.xp2)]
  /\ UNCHANGED <<dataFile, tmpFile, locked, waiters, pc, call, db, loc, log, store0, nops>>

\* remaining_to_next and progress_in_level of both arguments.
EvalProgress ==
  /\ calc.phase = "level"
  /\ calc' = [calc EXCEPT !.phase = "progress",
                          !.rem1 = remaining_to_next(calc.xp1),
                          !.rem2 = remaining_to_next(calc.xp2),
                          !.prog1 = progress_in_level(calc.xp1),
                          !.prog2 = progress_in_level(calc.xp2)]
  /\ UNCHANGED <<dataFile, tmpFile, locked, waiters, pc, call, db, loc, log, store0, nops>>

LevelNext == EvalLevel \/ EvalProgress

LevelSpec == LevelInit /\ [][LevelNext]_vars

\* ---------------------------------------------------------------------
\* Properties.

\* The store in DATA_FILE, and the xp it holds for a member (None for a
\* pair without a record).
Persisted == load_db(dataFile)

HasRecord(d, g, u) == g \in DOMAIN d /\ u \in DOMAIN d[g].members

XpIn(d, g, u) == IF HasRecord(d, g, u) THEN d[g].members[u].xp ELSE None

\* The handler is inside its async with db_lock block.
HoldsLock(h) == pc[h] \in {"load", "open", "write", "sendlocked"}

\* No handler is before the end of its critical section.
Settled == \A h \in Handlers : pc[h] \in {"idle", "respond", "raised"}

\* The deltas of the awards committed for a member, in commit order.
RECURSIVE AwardsOf(_, _, _)
AwardsOf(l, g, u) ==
  IF l = <<>> THEN <<>>
  ELSE (IF l[1].op = "addxp" /\ l[1].guild = g /\ l[1].user = u
        THEN <<l[1].amt>> ELSE <<>>) \o AwardsOf(Tail(l), g, u)

OnlyAwards(l, g, u) ==
  \A i \in 1..Len(l) : (l[i].guild = g /\ l[i].user = u) => l[i].op = "addxp"

RECURSIVE SumOf(_)
SumOf(ds) == IF ds = <<>> THEN 0 ELSE ds[1] + SumOf(Tail(ds))

\* The deltas applied one after the other, each result clamped at 0.
RECURSIVE ClampFold(_, _)
ClampFold(x, ds) ==
  IF ds = <<>> THEN x
  ELSE ClampFold(IF x + ds[1] < 0 THEN 0 ELSE x + ds[1], Tail(ds))

\* C1 as stated: when the awards on a member that had xp "initial" have all
\* gone through the lock, the persisted xp is max(0, initial + d1 + ... + dn),
\* whatever the order.
C1_SumClampedOnce ==
  \A g \in Guilds, u \in Users :
    (Settled /\ HasRecord(store0, g, u) /\ OnlyAwards(log, g, u))
      => XpIn(Persisted, g, u)
           = MaxOf(0, XpIn(store0, g, u) + SumOf(AwardsOf(log, g, u)))

\* C1 amended: no award is lost and none is applied twice; the persisted xp
\* of a member is the result of applying the committed deltas one at a time
\* in the order in which the calls held the lock, each step clamped at 0.
\* It is initial + d1 + ... + dn whenever that fold never clamps.
C1_NoLostUpdate ==
  \A g \in Guilds, u \in Users :
    (HasRecord(store0, g, u) /\ OnlyAwards(log, g, u))
      => /\ LoadOk(dataFile)
         /\ XpIn(Persisted, g, u)
              = ClampFold(XpIn(store0, g, u), AwardsOf(log, g, u))

\* Two addxp calls on the same member were in flight together, both have
\* committed, and the first one was clamped.
C1_Witness ==
  /\ \A h \in Handlers : pc[h] = "respond" /\ call[h].cmd = "addxp" /\ call[h].user = "u1"
  /\ AwardsOf(log, "g1", "u1") = <<-500, 300>>
  /\ XpIn(store0, "g1", "u1") = 300
  /\ XpIn(Persisted, "g1", "u1") = 300

\* C2: at most one handler is between the entry and the exit of its
\* critical section (before its load, between its load and its save, or, in
\* join, answering after its load), and db_lock is held while one is.
C2_MutualExclusion ==
  /\ Cardinality({h \in Handlers : HoldsLock(h)}) <= 1
  /\ (\E h \in Handlers : HoldsLock(h)) => locked
  /\ \A h \in Handlers : (pc[h] = "waiting") <=> (\E i \in 1..Len(waiters) : waiters[i] = h)

\* One handler is writing the store while the other waits for the lock.
C2_Witness ==
  \E h, k \in Handlers :
    /\ pc[h] = "write" /\ tmpFile.exists /\ Len(tmpFile.data) = 1
    /\ pc[k] = "waiting" /\ waiters = <<k>>

\* C3: DATA_FILE always holds a complete store: json.load accepts it and
\* it is the text of the store it parses to; while a handler is inside
\* save_db it is still the store that handler loaded; no reader outside the
\* lock has met a text that json.load rejects.
C3_AtomicSave ==
  /\ LoadOk(dataFile)
  /\ dataFile.exists => dataFile.data = Serialize(Persisted)
  /\ \A h \in Handlers : pc[h] \in {"open", "write"} => Persisted = loc[h].snap
  /\ \A h \in Handlers : loc[h].out # "corrupt"

\* A reader has answered from DATA_FILE while the temporary file of a
\* running save_db holds half a text.
C3_Witness ==
  \E h, k \in Handlers :
    /\ pc[h] = "write" /\ Len(tmpFile.data) = 2 /\ ~WellFormed(tmpFile.data)
    /\ pc[k] = "respond" /\ loc[k].out \in {"status", "party"}
    /\ dataFile.exists

\* C4: a step that ends a handler's save_db leaves in DATA_FILE either the
\* store the handler loaded (the handler then ends with the exception, or
\* the process died) or the whole mutated store (the handler then goes on
\* after the lock); until then DATA_FILE is the store the handler loaded.
C4_NoPartialApplication ==
  [][\A h \in Handlers :
       pc[h] \in {"open", "write"} =>
         /\ LoadOk(dataFile')
         /\ \/ load_db(dataFile') = loc[h].snap /\ log' = log
            \/ /\ load_db(dataFile') = db[h]
               /\ pc'[h] \in {"respond", "all_loop"}
         /\ pc'[h] = "raised" => (dataFile' = dataFile /\ loc'[h].out = "save_error")
    ]_vars

\* A save_db has failed after part of the text was written: the handler has
\* ended with the exception and DATA_FILE is the store it had loaded.
C4_Witness ==
  \E h \in Handlers :
    /\ pc[h] = "raised" /\ loc[h].out = "save_error"
    /\ tmpFile.exists /\ Len(tmpFile.data) = 2
    /\ Persisted = loc[h].snap
    /\ db[h] # loc[h].snap

\* A handler is awaiting a send to the network.
Sending(h) == pc[h] \in {"sendlocked", "respond"}

\* C5: no handler awaits a send while it holds db_lock.
C5_NoSendInsideLock ==
  \A h \in Handlers : Sending(h) => ~(HoldsLock(h) /\ locked)

\* C6: while the process runs, a handler that waits for db_lock gets it (it
\* does not wait for ever, and it stops waiting only by taking the lock),
\* and a handler that holds db_lock gives it up, also when its load_db or
\* save_db raises.
C6_LockLiveness ==
  /\ \A h \in Handlers : []<>(pc[h] # "waiting")
  /\ \A h \in Handlers : []<>(~HoldsLock(h))
  /\ [][\A h \in Handlers :
         (pc[h] = "waiting" /\ pc'[h] # "waiting") => (locked' /\ pc'[h] = "load")]_vars

\* A handler waits for the lock that another handler has just given up by
\* an exception of load_db or save_db.
C6_Witness ==
  \E h, k \in Handlers :
    /\ pc[h] = "waiting"
    /\ pc[k] = "raised" /\ loc[k].out \in {"load_error", "save_error"}
    /\ ~locked

\* C7: every member record of the persisted store has xp >= 0, and an award
\* whose delta would take the xp below 0 yields 0.
C7_XpNonNegative ==
  /\ LoadOk(dataFile)
  /\ \A g \in DOMAIN Persisted : \A u \in DOMAIN Persisted[g].members :
       Persisted[g].members[u].xp >= 0
  /\ \A h \in Handlers :
       (loc[h].out = "awarded" /\ loc[h].before_xp + call[h].amt < 0)
         => loc[h].after_xp = 0

\* An award of -500 on xp 300 has been committed and the store holds 0.
C7_Witness ==
  \E h \in Handlers :
    /\ pc[h] = "respond" /\ loc[h].out = "awarded"
    /\ loc[h].before_xp = 300 /\ call[h].amt = -500
    /\ XpIn(Persisted, call[h].guild, call[h].user) = 0

\* The step in which handler h commits its award (os.replace, then the
\* values computed after the lock).
AwardCommits(h) ==
  /\ pc[h] = "write"
  /\ call[h].cmd \in {"addxp", "addxp_all"}
  /\ pc'[h] \in {"respond", "all_loop"}

\* C8: an award of delta on a member whose persisted xp is x persists
\* max(0, x + delta) and reports that xp, its level, and leveledUp exactly
\* when that level is above the level of x.
C8_AwardResult ==
  [][\A h \in Handlers :
       (AwardCommits(h) /\ HasRecord(Persisted, call[h].guild, call[h].user)) =>
         LET x == XpIn(Persisted, call[h].guild, call[h].user)
             newXp == IF x + call[h].amt < 0 THEN 0 ELSE x + call[h].amt
         IN /\ XpIn(load_db(dataFile'), call[h].guild, call[h].user) = newXp
            /\ loc'[h].after_xp = newXp
            /\ loc'[h].after_lvl = level_from_xp(newXp)
            /\ loc'[h].leveled = (level_from_xp(newXp) > level_from_xp(x))
    ]_vars

\* The two examples: +300 on xp 0 gave xp 300, level 2, leveledUp; -500 on
\* xp 300 gave xp 0, level 1, no leveledUp.
C8_Witness ==
  \E h, k \in Handlers :
    /\ pc[h] = "respond" /\ loc[h].out = "awarded"
    /\ loc[h].before_xp = 0 /\ call[h].amt = 300
    /\ loc[h].after_xp = 300 /\ loc[h].after_lvl = 2 /\ loc[h].leveled
    /\ pc[k] = "respond" /\ loc[k].out = "awarded"
    /\ loc[k].before_xp = 300 /\ call[k].amt = -500
    /\ loc[k].after_xp = 0 /\ loc[k].after_lvl = 1 /\ ~loc[k].leveled

\* The step in which handler h commits its join.
JoinCommits(h) ==
  /\ pc[h] = "write"
  /\ call[h].cmd = "join"
  /\ pc'[h] = "respond"

\* C9: a join that commits found no record for the pair and creates one
\* with xp max(requestedXp, thresholdAt(requestedLevel)), whose level is at
\* least requestedLevel; with the defaults the xp is 0 and the level 1.
C9_JoinSeed ==
  [][\A h \in Handlers :
       JoinCommits(h) =>
         LET g == call[h].guild
             u == call[h].user
             seed == MaxOf(call[h].amt, XP_THRESHOLDS[call[h].level])
         IN /\ ~HasRecord(Persisted, g, u)
            /\ XpIn(load_db(dataFile'), g, u) = seed
            /\ loc'[h].after_xp = seed
            /\ loc'[h].after_lvl >= call[h].level
            /\ loc'[h].after_lvl = level_from_xp(seed)
            /\ (call[h].level = 1 /\ call[h].amt = 0)
                 => (seed = 0 /\ loc'[h].after_lvl = 1)
    ]_vars

\* A join with level 5 and xp 0 has created a record with xp 6500, and a
\* join with the defaults one with xp 0 and level 1.
C9_Witness ==
  \E h, k \in Handlers :
    /\ pc[h] = "respond" /\ loc[h].out = "joined"
    /\ call[h].level = 5 /\ call[h].amt = 0
    /\ loc[h].after_xp = 6500 /\ loc[h].after_lvl = 5
    /\ XpIn(Persisted, call[h].guild, call[h].user) = 6500
    /\ pc[k] = "respond" /\ loc[k].out = "joined"
    /\ call[k].level = 1 /\ call[k].amt = 0
    /\ loc[k].after_xp = 0 /\ loc[k].after_lvl = 1
    /\ XpIn(Persisted, call[k].guild, call[k].user) = 0

\* C10: a join for a pair that has a record never reaches save_db: it
\* reports the persisted xp and its level, whatever level and xp were asked
\* for, and no step it takes changes DATA_FILE.
C10_JoinExistingNoOp ==
  [][\A h \in Handlers :
       ( /\ call[h].cmd = "join"
         /\ pc[h] \in {"load", "sendlocked"}
         /\ HasRecord(Persisted, call[h].guild, call[h].user) ) =>
         /\ dataFile' = dataFile
         /\ log' = log
         /\ pc'[h] \notin {"open", "write"}
         /\ pc'[h] = "sendlocked" =>
              /\ loc'[h].out = "already"
              /\ loc'[h].after_xp = XpIn(Persisted, call[h].guild, call[h].user)
              /\ loc'[h].after_lvl = level_from_xp(loc'[h].after_xp)
    ]_vars

\* A join with level 5 and xp 20000 for a member with xp 300 reports xp 300
\* and level 2, and the store still holds 300.
C10_Witness ==
  \E h \in Handlers :
    /\ pc[h] = "sendlocked" /\ loc[h].out = "already"
    /\ call[h].level = 5 /\ call[h].amt = 20000
    /\ loc[h].after_xp = 300 /\ loc[h].after_lvl = 2
    /\ XpIn(Persisted, call[h].guild, call[h].user) = 300

\* C11: a setlevel to level L that commits leaves the member with xp exactly
\* thresholdAt(L), also when the xp was higher before, and so with level L;
\* the handler reports that xp and that level.  (The last entry of the log
\* is the mutation DATA_FILE holds.)
C11_SetLevelExact ==
  /\ (log # <<>> /\ log[Len(log)].op = "setlevel") =>
       LET e == log[Len(log)]
           xp == XpIn(Persisted, e.guild, e.user)
       IN /\ xp = XP_THRESHOLDS[e.level]
          /\ level_from_xp(xp) = e.level
  /\ \A h \in Handlers :
       loc[h].out = "set" =>
         /\ loc[h].after_xp = XP_THRESHOLDS[call[h].level]
         /\ loc[h].after_lvl = call[h].level

\* setlevel 5 on a member with xp 20000 has committed: the store holds 6500.
C11_Witness ==
  \E h \in Handlers :
    /\ pc[h] = "respond" /\ loc[h].out = "set"
    /\ call[h].level = 5 /\ loc[h].before_xp = 20000
    /\ log[Len(log)].op = "setlevel"
    /\ XpIn(Persisted, call[h].guild, call[h].user) = 6500
    /\ level_from_xp(XpIn(Persisted, call[h].guild, call[h].user)) = 5

\* The batch of handler h has completed.
BatchDone(h) == pc[h] = "respond" /\ loc[h].out = "all_done"

\* Number of fields the batch of h added for member u.
TimesAwarded(h, u) ==
  Cardinality({i \in 1..Len(loc[h].done) : loc[h].done[i] = u})

\* C12 as stated: when addxp_all completes, every member that has a record
\* in the group has had the delta applied exactly once by this batch.
C12_EveryMemberAwarded ==
  \A h \in Handlers :
    BatchDone(h) =>
      \A u \in Users :
        HasRecord(Persisted, call[h].guild, u) => TimesAwarded(h, u) = 1

\* C12 amended: the batch works on the member ids it read at its start.  No
\* id is awarded twice and no other id is awarded; when the batch
\* completes, every id of that list that could be resolved has been awarded
\* exactly once and the ids that could not be resolved not at all.  When
\* nothing but this batch has committed, the store holds max(0, xp + delta)
\* for the awarded members and the xp read at the start for the skipped.
C12_SnapshotAwardedOnce ==
  \A h \in Handlers :
    call[h].cmd = "addxp_all" =>
      LET g == call[h].guild
          l == loc[h]
      IN /\ \A u \in Users : TimesAwarded(h, u) <= 1
         /\ \A i \in 1..Len(l.done) : l.done[i] \in DOMAIN l.view
         /\ \A i \in 1..Len(l.done) :
              \E j \in 1..Len(log) :
                log[j] = [op |-> "addxp", guild |-> g, user |-> l.done[i],
                          level |-> 0, amt |-> call[h].amt]
         /\ BatchDone(h) =>
              /\ \A u \in DOMAIN l.view :
                   TimesAwarded(h, u) = (IF u \in l.skipped THEN 0 ELSE 1)
              /\ Len(log) = Len(l.done) =>
                   \A u \in DOMAIN l.view :
                     XpIn(Persisted, g, u) =
                       IF u \in l.skipped THEN l.view[u].xp
                       ELSE MaxOf(0, l.view[u].xp + call[h].amt)

\* A batch over two members has completed with both awarded, and nothing
\* else has committed since the batch read its list.
C12_Witness ==
  \E h \in Handlers :
    /\ BatchDone(h)
    /\ DOMAIN loc[h].view = {"u1", "u2"}
    /\ Len(loc[h].done) = 2
    /\ Len(log) = 3
    /\ call[h].amt = -500
    /\ XpIn(Persisted, "g1", "u1") = 0

\* C13: in addxp_all every member update is a critical section of its own
\* (the batch holds db_lock only inside an update), and an update that
\* fails does not end the batch while ids of its list are left.
C13_FailureDoesNotBlock ==
  \A h \in Handlers :
    call[h].cmd = "addxp_all" =>
      /\ pc[h] = "all_loop" => ~HoldsLock(h)
      /\ pc[h] = "raised" => loc[h].todo = {}

\* C14: every member record of the persisted store was in the store the
\* process found or was created by a join that committed for its pair; no
\* other command adds a record.
C14_OnlyJoinCreates ==
  \A g \in Guilds, u \in Users :
    HasRecord(Persisted, g, u) =>
      \/ HasRecord(store0, g, u)
      \/ \E i \in 1..Len(log) :
           log[i].op = "join" /\ log[i].guild = g /\ log[i].user = u

\* C15: no step removes a group record or a member record from the
\* persisted store: what DATA_FILE holds before a step of any command (or a
\* crash) it holds after it.
C15_RecordsNeverRemoved ==
  [][ /\ LoadOk(dataFile')
      /\ \A g \in DOMAIN Persisted :
           /\ g \in DOMAIN load_db(dataFile')
           /\ \A u \in DOMAIN Persisted[g].members :
                u \in DOMAIN load_db(dataFile')[g].members
    ]_vars

\* A record created by join is still there after another member's xp was
\* changed by a later command.
C15_Witness ==
  /\ Len(log) = 2
  /\ log[1].op = "join" /\ log[1].user = "u2"
  /\ log[2].op \in {"addxp", "setlevel"} /\ log[2].user = "u1"
  /\ HasRecord(Persisted, "g1", "u1")
  /\ HasRecord(Persisted, "g1", "u2")

\* The step in which handler h runs a read command up to its answer.
Reads(h) == pc[h] = "idle" /\ pc'[h] # "idle" /\ call'[h].cmd \in {"status", "party"}

\* The step in which the read command of handler h ends.
ReadEnds(h) == call[h].cmd \in {"status", "party"} /\ pc[h] # "idle" /\ pc'[h] = "idle"

\* C16: status and party never change DATA_FILE or its temporary file, not
\* when they look at a group or a pair that has no entry and not when they
\* end; they take no lock and log no mutation.  status answers not-a-member
\* exactly for a pair without a record and the stored xp and its level
\* otherwise; party shows the members of the group as stored.
C16_PureReads ==
  [][\A h \in Handlers :
       /\ (Reads(h) \/ ReadEnds(h)) =>
            /\ dataFile' = dataFile
            /\ tmpFile' = tmpFile
            /\ log' = log
       /\ Reads(h) => (locked' = locked /\ waiters' = waiters)
       /\ (Reads(h) /\ call'[h].cmd = "status") =>
            LET g == call'[h].guild
                u == call'[h].user
            IN IF HasRecord(Persisted, g, u)
               THEN /\ loc'[h].out = "status"
                    /\ loc'[h].after_xp = XpIn(Persisted, g, u)
                    /\ loc'[h].after_lvl = level_from_xp(XpIn(Persisted, g, u))
               ELSE loc'[h].out = "notmember"
       /\ (Reads(h) /\ call'[h].cmd = "party") =>
            loc'[h].view = (IF call'[h].guild \in DOMAIN Persisted
                            THEN Persisted[call'[h].guild].members ELSE EmptyMap)
    ]_vars

\* status has answered not-a-member for a pair without a record while the
\* store has no entry for the group at all, and DATA_FILE is still absent.
C16_Witness ==
  \E h \in Handlers :
    /\ pc[h] = "respond" /\ call[h].cmd = "status" /\ loc[h].out = "notmember"
    /\ ~dataFile.exists
    /\ Persisted = EmptyMap

\* The levels of the two arguments have been computed.
Levelled == calc.phase \in {"level", "progress"}

\* C17: the level of an xp total >= 0 is in 1..20, the level of the smaller
\* of two totals is not above the level of the larger, and a total at or
\* above the last threshold has level 20.
C17_LevelRangeMonotone ==
  Levelled =>
    /\ calc.lvl1 \in 1..20
    /\ calc.lvl2 \in 1..20
    /\ calc.xp1 <= calc.xp2 => calc.lvl1 <= calc.lvl2
    /\ calc.xp1 >= XP_THRESHOLDS[20] => calc.lvl1 = 20

\* A total one below the last threshold has level 19 and a total far above
\* it has level 20.
C17_Witness ==
  /\ Levelled
  /\ calc.xp1 = XP_THRESHOLDS[20] - 1 /\ calc.lvl1 = 19
  /\ calc.xp2 = 2 * XP_THRESHOLDS[20] /\ calc.lvl2 = 20

\* C18: the level of the threshold of L is L for every L in 1..20, and the
\* level of one xp less is L - 1 for every L in 2..20.
C18_ThresholdExact ==
  Levelled =>
    \A L \in 1..20 :
      /\ calc.xp1 = XP_THRESHOLDS[L] => calc.lvl1 = L
      /\ (L >= 2 /\ calc.xp1 = XP_THRESHOLDS[L] - 1) => calc.lvl1 = L - 1

\* 300 has level 2 and 299 has level 1.
C18_Witness ==
  /\ Levelled
  /\ calc.xp1 = XP_THRESHOLDS[2] /\ calc.lvl1 = 2
  /\ calc.xp2 = XP_THRESHOLDS[2] - 1 /\ calc.lvl2 = 1

\* C19: at level 20 progress_in_level is (0, 0, 20); remaining_to_next is
\* None exactly at level 20 and the next threshold minus the total below it.
C19_MaxLevelProgress ==
  calc.phase = "progress" =>
    /\ calc.lvl1 = 20 => calc.prog1 = <<0, 0, 20>>
    /\ (calc.rem1 = None) <=> (calc.lvl1 = 20)
    /\ calc.lvl1 < 20 => calc.rem1 = XP_THRESHOLDS[calc.lvl1 + 1] - calc.xp1

\* One xp below the last threshold 1 xp remains at level 19; at the last
\* threshold nothing remains and the progress is (0, 0, 20).
C19_Witness ==
  /\ calc.phase = "progress"
  /\ calc.xp2 = XP_THRESHOLDS[20] - 1 /\ calc.lvl2 = 19 /\ calc.rem2 = 1
  /\ calc.xp1 = XP_THRESHOLDS[20] /\ calc.lvl1 = 20
  /\ calc.rem1 = None /\ calc.prog1 = <<0, 0, 20>>

\* One command run alone, from load_db to save_db, on the store d: what
\* join (lines 249-276), add_xp_for_member (lines 368-377) and setlevel
\* (lines 534-537) make of d when nothing else runs.
RunAlone(d, e) ==
  LET b == guild_bucket(d, e.guild)
  IN CASE e.op = "join" ->
            IF IsMember(b, e.guild, e.user) THEN d
            ELSE SetXp(b, e.guild, e.user, JoinSeed(e.level, e.amt))
       [] e.op = "addxp" ->
            LET m == ensure_member(b, e.guild, e.user)
            IN SetXp(m, e.guild, e.user,
                     NewXp(m[e.guild].members[e.user].xp, e.amt))
       [] e.op = "setlevel" ->
            SetXp(ensure_member(b, e.guild, e.user), e.guild, e.user,
                  XP_THRESHOLDS[e.level])
       [] OTHER -> d

\* The commands of l run one at a time, each to its end, in the order of l.
RECURSIVE RunInOrder(_, _)
RunInOrder(d, l) ==
  IF l = <<>> THEN d ELSE RunInOrder(RunAlone(d, l[1]), Tail(l))

\* C20: whatever the interleaving of join, addxp, addxp_all and setlevel
\* handlers, DATA_FILE holds the store that results from running the
\* commands that went through the lock one at a time in the order in which
\* they held it, the clamp applied at every award.  (A join that found the
\* record and saved nothing is in that order where it held the lock, and
\* run alone there it changes nothing either.)
C20_Serializable ==
  /\ LoadOk(dataFile)
  /\ Persisted = RunInOrder(store0, log)
  /\ \A h \in Handlers :
       pc[h] = "sendlocked" => RunAlone(Persisted, LogEntry(call[h])) = Persisted

\* A join and a setlevel for the same new member were in flight together
\* and both have committed, the join first: the store holds the threshold
\* that setlevel wrote over the seed of the join.
C20_Witness ==
  \E h, k \in Handlers :
    /\ pc[h] = "respond" /\ loc[h].out = "joined" /\ loc[h].after_xp = 20000
    /\ pc[k] = "respond" /\ loc[k].out = "set"
    /\ call[h].user = "u2" /\ call[k].user = "u2"
    /\ Len(log) = 2 /\ log[1].op = "join" /\ log[2].op = "setlevel"
    /\ XpIn(Persisted, "g1", "u2") = 6500

\* The positions in the log of the joins committed for the pair (g, u).
JoinsOf(g, u) ==
  {i \in 1..Len(log) : log[i].op = "join" /\ log[i].guild = g /\ log[i].user = u}

\* C21: of the joins for one pair at most one creates the record, and it is
\* one that found no record when it held the lock; as long as no award and
\* no setlevel for the pair has committed since, the store holds the seed of
\* that join.  A join that holds the lock after it takes the
\* already-a-member path: it reports the stored xp, not its own seed, and
\* saves nothing.  So of two joins in flight together for a pair without a
\* record the first to commit inside the lock creates it and the other
\* leaves it as it is.
C21_OneJoinCreates ==
  /\ \A g \in Guilds, u \in Users :
       /\ Cardinality(JoinsOf(g, u)) <= 1
       /\ \A i \in JoinsOf(g, u) :
            /\ ~HasRecord(RunInOrder(store0, SubSeq(log, 1, i - 1)), g, u)
            /\ (\A j \in (i + 1)..Len(log) : ~(log[j].guild = g /\ log[j].user = u))
                 => XpIn(Persisted, g, u) = MaxOf(log[i].amt, XP_THRESHOLDS[log[i].level])
  /\ \A h \in Handlers :
       (call[h].cmd = "join" /\ pc[h] = "sendlocked") =>
         /\ HasRecord(Persisted, call[h].guild, call[h].user)
         /\ loc[h].out = "already"
         /\ loc[h].after_xp = XpIn(Persisted, call[h].guild, call[h].user)
  /\ \A h \in Handlers :
       (call[h].cmd = "join" /\ pc[h] \in {"open", "write"}) =>
         ~HasRecord(Persisted, call[h].guild, call[h].user)

\* Two joins for u2, who had no record, are in flight: the one with level 5
\* has created the record with xp 6500, the one with xp 20000 got the lock
\* after it and answers already-a-member with xp 6500.
C21_Witness ==
  \E h, k \in Handlers :
    /\ ~HasRecord(store0, "g1", "u2")
    /\ call[h].cmd = "join" /\ call[h].user = "u2"
    /\ pc[h] = "respond" /\ loc[h].out = "joined" /\ loc[h].after_xp = 6500
    /\ call[k].cmd = "join" /\ call[k].user = "u2" /\ call[k].amt = 20000
    /\ pc[k] = "sendlocked" /\ loc[k].out = "already" /\ loc[k].after_xp = 6500
    /\ Cardinality(JoinsOf("g1", "u2")) = 1
    /\ XpIn(Persisted, "g1", "u2") = 6500

====
